---- MODULE Spec2Model ----
(***************************************************************************)
(* A model of scripts/dataset_creation.py of NBA-Draft-Career-Paths:       *)
(*   calculate_years_since_draft            (SpecYears)                    *)
(*   add_missing_players_to_draft_history   (SpecReconcile)                *)
(*   scrape_career_paths                    (SpecScrape)                   *)
(*   map_countries_to_alpha3                (SpecCountry)                  *)
(* Each function has its own variables and its own specification; the      *)
(* variables of the other functions stay at their idle values.             *)
(***************************************************************************)
EXTENDS Integers, Sequences, FiniteSets, TLC

VARIABLES
    \* calculate_years_since_draft
    season,           \* argument: the label 'YY-YY', a sequence of characters
    draft_year,       \* argument
    current_year,     \* datetime.now().year
    ypc,              \* position in the function
    start_yy,         \* local
    current_century,  \* local
    offset_idx,       \* position of the for loop in [-100, 0, 100]
    examined,         \* the potential_year values tested so far, in order
    years_result,     \* the returned value
    years_accepted,   \* TRUE when the return inside the loop was taken
    years_warned,     \* TRUE when 'Possible incorrect data' was printed
    \* add_missing_players_to_draft_history
    registry,         \* data/nba_draft_history.json: a sequence of records
    season_as_text,   \* whether DraftHistory() delivers SEASON as text
    api_rows,         \* what DraftHistory() returned to the last run
    last_step,        \* "run": a run on new rows; "rerun": a run on the same
                      \* rows as the run before it; "curated": an edit by hand
    grew,             \* a run has appended rows
    \* scrape_career_paths
    draft_years_to_update,  \* argument
    spc,              \* position in the function
    year_idx,         \* position of the outer loop
    to_update,        \* df_career_paths_to_update
    player_idx,       \* position of the inner loop
    dfs_career_paths, \* the frames collected for the year
    career_files,     \* data/career_paths/career_paths_draft_<year>.json
    written,          \* the years whose file this call has written
    fetch_log,        \* every requests.get of this call and how it ended
    console,          \* what the call printed
    error,            \* the exception that ended the call, if one did
    \* map_countries_to_alpha3
    country_mappings, \* data/league_to_country_mappings.json, in file order
    league_prefixes,  \* the distinct League_Prefix values of the last call's frame
    looked_up,        \* the prefixes the last call asked pycountry about
    unmapped_printed, \* the prefixes the last call printed as without mapping
    country_error     \* the exception that ended the last call, if one did

yearsVars == <<season, draft_year, current_year, ypc, start_yy, current_century,
               offset_idx, examined, years_result, years_accepted, years_warned>>

reconcileVars == <<registry, season_as_text, api_rows, last_step, grew>>

scrapeVars == <<draft_years_to_update, spc, year_idx, to_update, player_idx,
                dfs_career_paths, career_files, written, fetch_log, console, error>>

countryVars == <<country_mappings, league_prefixes, looked_up, unmapped_printed,
                 country_error>>

vars == <<yearsVars, reconcileVars, scrapeVars, countryVars>>

NONE == "none"

-----------------------------------------------------------------------------
(* The values the variables of a function keep while another function runs *)

YearsIdle ==
    /\ season = <<>>
    /\ draft_year = 0
    /\ current_year = 0
    /\ ypc = "idle"
    /\ start_yy = 0
    /\ current_century = 0
    /\ offset_idx = 0
    /\ examined = <<>>
    /\ years_result = NONE
    /\ years_accepted = FALSE
    /\ years_warned = FALSE

ReconcileIdle ==
    /\ registry = <<>>
    /\ season_as_text = FALSE
    /\ api_rows = <<>>
    /\ last_step = NONE
    /\ grew = FALSE

ScrapeIdle ==
    /\ draft_years_to_update = <<>>
    /\ spc = "idle"
    /\ year_idx = 0
    /\ to_update = <<>>
    /\ player_idx = 0
    /\ dfs_career_paths = <<>>
    /\ career_files = <<>>
    /\ written = {}
    /\ fetch_log = <<>>
    /\ console = <<>>
    /\ error = NONE

CountryIdle ==
    /\ country_mappings = <<>>
    /\ league_prefixes = <<>>
    /\ looked_up = {}
    /\ unmapped_printed = {}
    /\ country_error = NONE

-----------------------------------------------------------------------------
(* calculate_years_since_draft: the operators                              *)

\* Bounds of the inputs drawn in YearsInit.
MinDraftYear == 1947
MaxDraftYear == 2030

\* The clock readings the model draws datetime.now().year from.
CurrentYears == {1999, 2026, 2101}

Digits == <<"0", "1", "2", "3", "4", "5", "6", "7", "8", "9">>

DigitValue(c) == (CHOOSE i \in 1..10 : Digits[i] = c) - 1

\* The label of the season that starts in a year ending in yy: 'YY-YY'.
SeasonLabel(yy) ==
    LET zz == (yy + 1) % 100
    IN  <<Digits[(yy \div 10) + 1], Digits[(yy % 10) + 1], "-",
          Digits[(zz \div 10) + 1], Digits[(zz % 10) + 1]>>

\* season.split('-')[0]
SplitFirst(s) ==
    IF \E i \in 1..Len(s) : s[i] = "-"
    THEN LET k == CHOOSE i \in 1..Len(s) :
                     s[i] = "-" /\ \A j \in 1..(i - 1) : s[j] # "-"
         IN  SubSeq(s, 1, k - 1)
    ELSE s

\* int(...) of a string of decimal digits
RECURSIVE ParseInt(_)
ParseInt(s) ==
    IF Len(s) = 0 THEN 0
    ELSE 10 * ParseInt(SubSeq(s, 1, Len(s) - 1)) + DigitValue(s[Len(s)])

Abs(x) == IF x < 0 THEN -x ELSE x

\* for century_offset in [-100, 0, 100]
CenturyOffsets == <<-100, 0, 100>>

\* the two-digit year left out of the sum
PotentialYearWithoutYY(century, century_offset, yy) == century + century_offset

\* potential_year = current_century + century_offset + start_yy
PotentialYear(century, century_offset, yy) == century + century_offset + yy

\* if -10 < abs(potential_year - draft_year) < 30
InWindow(potential_year, year) ==
    -10 < Abs(potential_year - year) /\ Abs(potential_year - year) < 30

-----------------------------------------------------------------------------
(* add_missing_players_to_draft_history                                    *)

\* pd.NA / null
NULL == -1

\* The draft years and the highest overall pick the model draws rows from.
Seasons == {2023, 2024}
MaxPick == 2

Keys == Seasons \X (1..MaxPick)

\* The four decimal digits of a year, as the text "2024".
YearText(y) ==
    <<Digits[(y \div 1000) + 1], Digits[((y \div 100) % 10) + 1],
      Digits[((y \div 10) % 10) + 1], Digits[(y % 10) + 1]>>

\* A SEASON value of the frame DraftHistory() returns. The repository converts
\* the column with astype(int) (lines 33 and 72) and does not fix its dtype, so a
\* fetch delivers either integers or text.
ApiSeason(y, as_text) ==
    IF as_text THEN [text |-> TRUE, value |-> YearText(y)]
    ELSE [text |-> FALSE, value |-> y]

\* SEASON.astype(int)
SeasonAsInt(v) == IF v.text THEN ParseInt(v.value) ELSE v.value

\* One row of the fetched frame.
ApiRow(k, as_text) ==
    [PLAYER_NAME |-> k, SEASON |-> ApiSeason(k[1], as_text), OVERALL_PICK |-> k[2]]

\* The rows with keys ks in the order the source lists them: oldest draft
\* first, by pick.
RECURSIVE ApiFrame(_, _)
ApiFrame(ks, as_text) ==
    IF ks = {} THEN <<>>
    ELSE LET k == CHOOSE a \in ks : \A b \in ks :
                      a[1] < b[1] \/ (a[1] = b[1] /\ a[2] <= b[2])
         IN  <<ApiRow(k, as_text)>> \o ApiFrame(ks \ {k}, as_text)

\* The frames a fetch can return: of every draft year the picks 1..m, for some
\* m that may be 0, and at least one row.
Fetches(as_text) ==
    {ApiFrame({k \in Keys : k[2] <= m[k[1]]}, as_text) :
        m \in {f \in [Seasons -> 0..MaxPick] : \E y \in Seasons : f[y] > 0}}

\* download_draft_history: the first build of the file.
DownloadDraftHistory(frame) ==
    [i \in 1..Len(frame) |->
        [PLAYER_NAME |-> frame[i].PLAYER_NAME, PROBALLERS_ID |-> NULL,
         SEASON |-> SeasonAsInt(frame[i].SEASON),
         OVERALL_PICK |-> frame[i].OVERALL_PICK]]

\* Series.isin of a fetched SEASON against the file's integer column: values of
\* different types are never equal.
SeasonIsIn(v, file) ==
    IF v.text THEN FALSE
    ELSE \E i \in 1..Len(file) : file[i].SEASON = v.value

PickIsIn(pick, file) == \E i \in 1..Len(file) : file[i].OVERALL_PICK = pick

\* lines 63-69: is_new_draft_player
IsNewDraftPlayer(row, file) ==
    ~SeasonIsIn(row.SEASON, file) /\ ~PickIsIn(row.OVERALL_PICK, file)

\* the mask is_new_draft_player not applied: every fetched row is taken as new
NewDraftUnmasked(frame, file) ==
    [i \in 1..Len(frame) |->
        [PLAYER_NAME |-> frame[i].PLAYER_NAME, PROBALLERS_ID |-> NULL,
         SEASON |-> SeasonAsInt(frame[i].SEASON),
         OVERALL_PICK |-> frame[i].OVERALL_PICK]]

\* lines 71-76: the new rows, SEASON as int, PROBALLERS_ID null
NewDraft(frame, file) ==
    LET new == SelectSeq(frame, LAMBDA row : IsNewDraftPlayer(row, file))
    IN  [i \in 1..Len(new) |->
            [PLAYER_NAME |-> new[i].PLAYER_NAME, PROBALLERS_ID |-> NULL,
             SEASON |-> SeasonAsInt(new[i].SEASON),
             OVERALL_PICK |-> new[i].OVERALL_PICK]]

\* The order of sort_values(['SEASON', 'OVERALL_PICK'], ascending=[False, True]).
SortsBefore(a, b) ==
    \/ a.SEASON > b.SEASON
    \/ a.SEASON = b.SEASON /\ a.OVERALL_PICK < b.OVERALL_PICK

\* Insert row x behind every row that does not sort after it (a stable sort).
InsertSorted(sorted, x) ==
    LET behind == {i \in 1..Len(sorted) : ~SortsBefore(x, sorted[i])}
        n == IF behind = {} THEN 0 ELSE CHOOSE i \in behind : \A j \in behind : j <= i
    IN  SubSeq(sorted, 1, n) \o <<x>> \o SubSeq(sorted, n + 1, Len(sorted))

\* lines 80-84: sort_values and reset_index
RECURSIVE SortValues(_)
SortValues(rows) ==
    IF Len(rows) = 0 THEN <<>>
    ELSE InsertSorted(SortValues(SubSeq(rows, 1, Len(rows) - 1)), rows[Len(rows)])

\* lines 52-84: the file's rows, the new rows appended, sorted
Reconcile(file, frame) == SortValues(file \o NewDraft(frame, file))

KeyOf(row) == <<row.SEASON, row.OVERALL_PICK>>

\* The identifier a curator gives a row.
CuratedId(row) == row.SEASON * 100 + row.OVERALL_PICK

\* The file as download_draft_history first wrote it.
ReconcileInit ==
    /\ season_as_text \in BOOLEAN
    /\ registry \in {DownloadDraftHistory(f) : f \in Fetches(season_as_text)}
    /\ api_rows = <<>>
    /\ last_step = NONE
    /\ grew = FALSE
    /\ YearsIdle
    /\ ScrapeIdle
    /\ CountryIdle

\* lines 43-88: one run of add_missing_players_to_draft_history
AddMissingPlayers ==
    /\ \E frame \in Fetches(season_as_text) :
        /\ registry' = Reconcile(registry, frame)
        /\ api_rows' = frame
        /\ last_step' = IF frame = api_rows THEN "rerun" ELSE "run"
        /\ grew' = (grew \/ Len(registry') > Len(registry))
    /\ UNCHANGED season_as_text
    /\ UNCHANGED <<yearsVars, scrapeVars, countryVars>>

\* main, lines 316-318: a PROBALLERS_ID is added to the file by hand
AssignProballersId ==
    /\ \E i \in 1..Len(registry) :
        /\ registry[i].PROBALLERS_ID = NULL
        /\ registry' = [registry EXCEPT ![i].PROBALLERS_ID = CuratedId(registry[i])]
    /\ last_step' = "curated"
    /\ UNCHANGED <<season_as_text, api_rows, grew>>
    /\ UNCHANGED <<yearsVars, scrapeVars, countryVars>>

ReconcileNext == AddMissingPlayers \/ AssignProballersId

SpecReconcile == ReconcileInit /\ [][ReconcileNext]_vars

\* The behaviours in which DraftHistory() delivers SEASON as text.
ReconcileTextInit == ReconcileInit /\ season_as_text = TRUE

SpecReconcileText == ReconcileTextInit /\ [][ReconcileNext]_vars

-----------------------------------------------------------------------------
(* scrape_career_paths                                                     *)

\* The draft years a call can be asked to update; 2022 is in no file.
RequestableYears == Seasons \cup {2022}
\* The longest list of years a call is given.
MaxRequested == 3

\* How a requests.get of a player page can end: the request raises (a timeout,
\* a refused connection), the page has no 'anchor-regular-season' section, the
\* section has no table, or the section has the table.
PageOutcomes == {"raises", "no_section", "no_table", "table"}

\* The rows read from a player's table.
PlayerTable == <<[Season |-> "23-24", Team |-> "Bourg-en-Bresse", League |-> "FRA-1"]>>

\* The files of an earlier run.
StaleFile == <<[Player_Name |-> <<0, 0>>, Proballers_ID |-> 0, Season |-> "22-23",
               Team |-> "Asvel", League |-> "FRA-1", Draft_Year |-> 0]>>

\* A file a curator has worked on: the rows of ks, sorted, those of ids with
\* their PROBALLERS_ID.
CuratedFile(ks, ids) ==
    LET rows == DownloadDraftHistory(ApiFrame(ks, FALSE))
    IN  SortValues([i \in 1..Len(rows) |->
            IF KeyOf(rows[i]) \in ids
            THEN [rows[i] EXCEPT !.PROBALLERS_ID = CuratedId(rows[i])]
            ELSE rows[i]])

CuratedFiles ==
    {CuratedFile(ks, ids) : ks \in (SUBSET Keys) \ {{}}, ids \in SUBSET Keys}

\* The lists of distinct years of length 1..MaxRequested.
RequestLists ==
    {q \in UNION {[1..n -> RequestableYears] : n \in 1..MaxRequested} :
        \A i, j \in 1..Len(q) : q[i] = q[j] => i = j}

\* df_draft_history['SEASON'].unique()
SeasonsOfFile(file) == {file[i].SEASON : i \in 1..Len(file)}

\* lines 107-110: the rows of the year that have a PROBALLERS_ID
CareerPathsToUpdate(file, year) ==
    SelectSeq(file, LAMBDA row : row.PROBALLERS_ID # NULL /\ row.SEASON = year)

\* lines 139-146: the player's frame
PlayerCareer(row, year) ==
    [i \in 1..Len(PlayerTable) |->
        [Player_Name |-> row.PLAYER_NAME, Proballers_ID |-> row.PROBALLERS_ID,
         Season |-> PlayerTable[i].Season, Team |-> PlayerTable[i].Team,
         League |-> PlayerTable[i].League, Draft_Year |-> year]]

\* pd.concat(frames, ignore_index=True) of a list that is not empty
RECURSIVE Concat(_)
Concat(frames) ==
    IF Len(frames) = 0 THEN <<>> ELSE frames[1] \o Concat(Tail(frames))

ScrapeInit ==
    /\ registry \in CuratedFiles
    /\ season_as_text = FALSE
    /\ api_rows = <<>>
    /\ last_step = NONE
    /\ grew = FALSE
    /\ draft_years_to_update \in RequestLists
    /\ spc = "call"
    /\ year_idx = 0
    /\ to_update = <<>>
    /\ player_idx = 0
    /\ dfs_career_paths = <<>>
    /\ career_files = [y \in RequestableYears |-> StaleFile]
    /\ written = {}
    /\ fetch_log = <<>>
    /\ console = <<>>
    /\ error = NONE
    /\ YearsIdle
    /\ CountryIdle

\* line 99: read the file
ScrapeEnter ==
    /\ spc = "call"
    /\ spc' = "year"
    /\ year_idx' = 1
    /\ UNCHANGED <<draft_years_to_update, to_update, player_idx, dfs_career_paths,
                   career_files, written, fetch_log, console, error>>
    /\ UNCHANGED <<yearsVars, reconcileVars, countryVars>>

\* lines 101-119: the top of the outer loop
ScrapeYear ==
    /\ spc = "year"
    /\ IF year_idx > Len(draft_years_to_update)
       THEN /\ spc' = "returned"
            /\ UNCHANGED <<to_update, player_idx, dfs_career_paths, console>>
       ELSE LET year == draft_years_to_update[year_idx]
            IN  IF year \notin SeasonsOfFile(registry)
                THEN /\ console' = Append(console, <<"No data for draft year", year>>)
                     /\ spc' = "returned"
                     /\ UNCHANGED <<to_update, player_idx, dfs_career_paths>>
                ELSE /\ to_update' = CareerPathsToUpdate(registry, year)
                     /\ player_idx' = 1
                     /\ dfs_career_paths' = <<>>
                     /\ spc' = "player"
                     /\ UNCHANGED console
    /\ UNCHANGED <<draft_years_to_update, year_idx, career_files, written,
                   fetch_log, error>>
    /\ UNCHANGED <<yearsVars, reconcileVars, countryVars>>

\* lines 120-148: one iteration of the inner loop
ScrapePlayer ==
    /\ spc = "player"
    /\ player_idx <= Len(to_update)
    /\ LET row == to_update[player_idx]
           year == draft_years_to_update[year_idx]
       IN  \E outcome \in PageOutcomes :
            /\ fetch_log' = Append(fetch_log,
                   [id |-> row.PROBALLERS_ID, year |-> year, outcome |-> outcome])
            /\ IF outcome = "raises"
               THEN /\ error' = "requests.RequestException"
                    /\ spc' = "raised"
                    /\ UNCHANGED <<player_idx, dfs_career_paths, console>>
               ELSE /\ player_idx' = player_idx + 1
                    /\ dfs_career_paths' =
                           IF outcome = "table"
                           THEN Append(dfs_career_paths, PlayerCareer(row, year))
                           ELSE dfs_career_paths
                    /\ console' =
                           IF outcome = "no_section"
                           THEN Append(console,
                                    <<"No career data found for player", row.PROBALLERS_ID>>)
                           ELSE console
                    /\ UNCHANGED <<spc, error>>
    /\ UNCHANGED <<draft_years_to_update, year_idx, to_update, career_files, written>>
    /\ UNCHANGED <<yearsVars, reconcileVars, countryVars>>

\* lines 152-156: concatenate the frames and write the year's file
ScrapeWrite ==
    /\ spc = "player"
    /\ player_idx > Len(to_update)
    /\ IF dfs_career_paths = <<>>
       THEN \* pd.concat([]) raises ValueError: No objects to concatenate
            /\ error' = "ValueError"
            /\ spc' = "raised"
            /\ UNCHANGED <<year_idx, career_files, written>>
       ELSE /\ career_files' =
                   [career_files EXCEPT ![draft_years_to_update[year_idx]] =
                       Concat(dfs_career_paths)]
            /\ written' = written \cup {draft_years_to_update[year_idx]}
            /\ year_idx' = year_idx + 1
            /\ spc' = "year"
            /\ UNCHANGED error
    /\ UNCHANGED <<draft_years_to_update, to_update, player_idx, dfs_career_paths,
                   fetch_log, console>>
    /\ UNCHANGED <<yearsVars, reconcileVars, countryVars>>

ScrapeNext == ScrapeEnter \/ ScrapeYear \/ ScrapePlayer \/ ScrapeWrite

SpecScrape == ScrapeInit /\ [][ScrapeNext]_vars

-----------------------------------------------------------------------------
(* map_countries_to_alpha3                                                 *)

\* The longest list of distinct prefixes a frame holds.
MaxPrefixes == 2

Letters == <<"A", "B", "C", "D", "E", "F", "G", "H", "I", "J", "K", "L", "M",
             "N", "O", "P", "Q", "R", "S", "T", "U", "V", "W", "X", "Y", "Z">>

LetterIndex(c) == CHOOSE i \in 1..26 : Letters[i] = c

\* The League_Prefix of a row whose League is missing.
NAN == <<"NaN">>

\* The prefixes the frames are drawn from, each a string of letters.
PrefixAUS == <<"A", "U", "S">>
PrefixEUR == <<"E", "U", "R">>
PrefixUS == <<"U", "S">>
PrefixUK == <<"U", "K">>
PrefixNCAA == <<"N", "C", "A", "A">>
PrefixUniverse == {PrefixAUS, PrefixEUR, PrefixUS, PrefixUK, PrefixNCAA, NAN}

\* pycountry's code list, as far as the prefixes reach into it.
PycountryAlpha2 == {[alpha_2 |-> PrefixUS, alpha_3 |-> "USA", name |-> "United States"]}
PycountryAlpha3 == {[alpha_3 |-> PrefixAUS, code |-> "AUS", name |-> "Australia"]}

\* The order of Python's str comparison on strings of capital letters.
RECURSIVE StrLess(_, _)
StrLess(a, b) ==
    IF Len(a) = 0 THEN Len(b) > 0
    ELSE IF Len(b) = 0 THEN FALSE
    ELSE IF a[1] = b[1] THEN StrLess(Tail(a), Tail(b))
    ELSE LetterIndex(a[1]) < LetterIndex(b[1])

MappingKeys(mappings) == {mappings[i].prefix : i \in 1..Len(mappings)}

\* country_mappings[prefix]
MappingOf(mappings, prefix) ==
    mappings[CHOOSE i \in 1..Len(mappings) : mappings[i].prefix = prefix]

\* lines 201-207: the prefix maps to no alpha-3 code
IsCountryUnmapped(mappings, prefix) ==
    \/ prefix = NAN
    \/ prefix \notin MappingKeys(mappings)
    \/ MappingOf(mappings, prefix).ALPHA3 = NONE

\* every prefix of the frame, mapped or not
AllPrefixes(mappings, prefixes) == prefixes

\* lines 207-210: the unmapped prefixes in their order of appearance
CountriesWithoutMapping(mappings, prefixes) ==
    SelectSeq(prefixes, LAMBDA prefix : IsCountryUnmapped(mappings, prefix))

\* lines 214-215: country_unmapped_alpha3 = None, country_unmapped_name = None
NotFound == [ALPHA3 |-> NONE, NAME |-> NONE]

\* lines 219-224: the pycountry lookup; NotFound when the code list has no such
\* country (AttributeError, caught) or the prefix has another length
PycountryLookup(prefix) ==
    IF Len(prefix) = 2
    THEN IF \E c \in PycountryAlpha2 : c.alpha_2 = prefix
         THEN LET c == CHOOSE c \in PycountryAlpha2 : c.alpha_2 = prefix
              IN  [ALPHA3 |-> c.alpha_3, NAME |-> c.name]
         ELSE NotFound
    ELSE IF Len(prefix) = 3
    THEN IF \E c \in PycountryAlpha3 : c.alpha_3 = prefix
         THEN LET c == CHOOSE c \in PycountryAlpha3 : c.alpha_3 = prefix
              IN  [ALPHA3 |-> c.code, NAME |-> c.name]
         ELSE NotFound
    ELSE NotFound

\* lines 231-234: country_mappings[prefix] = {...}: replace in place or append
SetMapping(mappings, prefix, entry) ==
    LET row == [prefix |-> prefix, ALPHA3 |-> entry.ALPHA3, NAME |-> entry.NAME]
    IN  IF prefix \in MappingKeys(mappings)
        THEN [i \in 1..Len(mappings) |->
                 IF mappings[i].prefix = prefix THEN row ELSE mappings[i]]
        ELSE Append(mappings, row)

\* lines 213-237: the loop over the unmapped prefixes, up to the first one that
\* is missing (len() of it raises TypeError)
RECURSIVE ResolveLoop(_, _, _)
ResolveLoop(mappings, todo, asked) ==
    IF Len(todo) = 0
    THEN [mappings |-> mappings, asked |-> asked, raised |-> FALSE]
    ELSE IF Head(todo) = NAN
    THEN [mappings |-> mappings, asked |-> asked, raised |-> TRUE]
    ELSE LET found == PycountryLookup(Head(todo))
         IN  ResolveLoop(
                 IF found.ALPHA3 = NONE THEN mappings ELSE SetMapping(mappings, Head(todo), found),
                 Tail(todo), asked \cup {Head(todo)})

\* Insert an entry behind every entry whose key is not greater.
InsertByKey(sorted, x) ==
    LET behind == {i \in 1..Len(sorted) : ~StrLess(x.prefix, sorted[i].prefix)}
        n == IF behind = {} THEN 0 ELSE CHOOSE i \in behind : \A j \in behind : j <= i
    IN  SubSeq(sorted, 1, n) \o <<x>> \o SubSeq(sorted, n + 1, Len(sorted))

\* line 241: dict(sorted(country_mappings.items()))
RECURSIVE SortedItems(_)
SortedItems(mappings) ==
    IF Len(mappings) = 0 THEN <<>>
    ELSE InsertByKey(SortedItems(SubSeq(mappings, 1, Len(mappings) - 1)),
                     mappings[Len(mappings)])

\* lines 243-246: the prefixes still without alpha-3 code
StillUnmapped(mappings, prefixes) ==
    {prefixes[i] : i \in {j \in 1..Len(prefixes) : IsCountryUnmapped(mappings, prefixes[j])}}

\* The mapping files a run can start from: entries written by hand
\* (UK for the United Kingdom, AUS for Austria) and by earlier calls.
SeedEntries ==
    {[prefix |-> PrefixUK, ALPHA3 |-> "GBR", NAME |-> "United Kingdom"],
     [prefix |-> PrefixAUS, ALPHA3 |-> "AUT", NAME |-> "Austria"]}

RECURSIVE SeqOfSet(_)
SeqOfSet(set) ==
    IF set = {} THEN <<>>
    ELSE LET x == CHOOSE x \in set : TRUE IN <<x>> \o SeqOfSet(set \ {x})

SeedFiles == {SortedItems(SeqOfSet(es)) : es \in SUBSET SeedEntries}

\* The lists of distinct prefixes of length 0..MaxPrefixes.
PrefixLists ==
    {q \in UNION {[1..n -> PrefixUniverse] : n \in 0..MaxPrefixes} :
        \A i, j \in 1..Len(q) : q[i] = q[j] => i = j}

CountryInit ==
    /\ country_mappings \in SeedFiles
    /\ league_prefixes = <<>>
    /\ looked_up = {}
    /\ unmapped_printed = {}
    /\ country_error = NONE
    /\ YearsIdle
    /\ ReconcileIdle
    /\ ScrapeIdle

\* lines 195-250: one call of map_countries_to_alpha3
MapCountriesToAlpha3 ==
    /\ \E prefixes \in PrefixLists :
        LET out == ResolveLoop(country_mappings,
                       CountriesWithoutMapping(country_mappings, prefixes), {})
        IN  /\ league_prefixes' = prefixes
            /\ looked_up' = out.asked
            /\ IF out.raised
               THEN /\ country_error' = "TypeError"
                    /\ UNCHANGED <<country_mappings, unmapped_printed>>
               ELSE /\ country_error' = NONE
                    /\ country_mappings' = SortedItems(out.mappings)
                    /\ unmapped_printed' = StillUnmapped(out.mappings, prefixes)
    /\ UNCHANGED <<yearsVars, reconcileVars, scrapeVars>>

CountryNext == MapCountriesToAlpha3

SpecCountry == CountryInit /\ [][CountryNext]_vars

-----------------------------------------------------------------------------
(* calculate_years_since_draft: the state machine                          *)

YearsInit ==
    /\ season \in {SeasonLabel(yy) : yy \in 0..99}
    /\ draft_year \in MinDraftYear..MaxDraftYear
    /\ current_year \in CurrentYears
    /\ ypc = "call"
    /\ start_yy = 0
    /\ current_century = 0
    /\ offset_idx = 0
    /\ examined = <<>>
    /\ years_result = NONE
    /\ years_accepted = FALSE
    /\ years_warned = FALSE
    /\ ReconcileIdle
    /\ ScrapeIdle
    /\ CountryIdle

\* lines 170-172: parse the label, read the clock
YearsEnter ==
    /\ ypc = "call"
    /\ start_yy' = ParseInt(SplitFirst(season))
    /\ current_century' = current_year - (current_year % 100)
    /\ offset_idx' = 1
    /\ ypc' = "loop"
    /\ UNCHANGED <<season, draft_year, current_year, examined, years_result,
                   years_accepted, years_warned>>
    /\ UNCHANGED <<reconcileVars, scrapeVars, countryVars>>

\* lines 175-180: one iteration of the loop
YearsTry ==
    /\ ypc = "loop"
    /\ LET potential_year ==
               PotentialYear(current_century, CenturyOffsets[offset_idx], start_yy)
       IN  /\ examined' = Append(examined, potential_year)
           /\ IF InWindow(potential_year, draft_year)
              THEN /\ years_result' = potential_year - draft_year
                   /\ years_accepted' = TRUE
                   /\ ypc' = "done"
                   /\ UNCHANGED offset_idx
              ELSE /\ UNCHANGED <<years_result, years_accepted>>
                   /\ IF offset_idx = Len(CenturyOffsets)
                      THEN ypc' = "fallback" /\ UNCHANGED offset_idx
                      ELSE ypc' = "loop" /\ offset_idx' = offset_idx + 1
    /\ UNCHANGED <<season, draft_year, current_year, start_yy, current_century,
                   years_warned>>
    /\ UNCHANGED <<reconcileVars, scrapeVars, countryVars>>

\* lines 182-183: no candidate passed the test
YearsFallback ==
    /\ ypc = "fallback"
    /\ years_warned' = TRUE
    /\ years_result' = current_century + start_yy - draft_year
    /\ ypc' = "done"
    /\ UNCHANGED <<season, draft_year, current_year, start_yy, current_century,
                   offset_idx, examined, years_accepted>>
    /\ UNCHANGED <<reconcileVars, scrapeVars, countryVars>>

YearsNext == YearsEnter \/ YearsTry \/ YearsFallback

SpecYears == YearsInit /\ [][YearsNext]_vars

-----------------------------------------------------------------------------
(* Properties of calculate_years_since_draft                               *)

\* The two leading digits of the label, read as a number 0..99.
LabelYY == 10 * DigitValue(season[1]) + DigitValue(season[2])

CenturyNow == current_year - (current_year % 100)

\* The three candidate years in the order current, previous, next century.
CandidatesCurrentFirst ==
    <<CenturyNow + LabelYY, CenturyNow - 100 + LabelYY, CenturyNow + 100 + LabelYY>>

SignedWindow(offset) == -10 < offset /\ offset < 30

\* The positions of CandidatesCurrentFirst whose signed offset is in the window.
Qualifying == {i \in 1..3 : SignedWindow(CandidatesCurrentFirst[i] - draft_year)}

FirstQualifying == CHOOSE i \in Qualifying : \A j \in Qualifying : i <= j

\* C1: the function returns from its loop exactly for the first candidate
\* (current, previous, next century) whose signed offset from the draft year
\* is strictly between -10 and 30, and returns that candidate's offset.
C1_FirstSignedCandidateReturned ==
    ypc = "done" =>
        /\ years_accepted => SignedWindow(years_result)
        /\ Qualifying # {} =>
               /\ years_accepted
               /\ years_result = CandidatesCurrentFirst[FirstQualifying] - draft_year

\* C8: when the current-century candidate c has
\* draft_year - 9 <= c <= draft_year + 29, the function returns c - draft_year.
C8_CurrentCenturyPreferred ==
    ypc = "done" =>
        LET c == CenturyNow + LabelYY
        IN  (draft_year - 9 <= c /\ c <= draft_year + 29) =>
                years_result = c - draft_year

\* C8 witness: the previous-century candidate was tested and rejected, then
\* the current-century candidate, inside the window, was returned.
C8_Witness ==
    /\ ypc = "done"
    /\ draft_year - 9 <= CenturyNow + LabelYY
    /\ CenturyNow + LabelYY <= draft_year + 29
    /\ examined = <<CenturyNow - 100 + LabelYY, CenturyNow + LabelYY>>
    /\ years_result = CenturyNow + LabelYY - draft_year
    /\ years_result < 0

\* C9: when no candidate has a signed offset strictly between -10 and 30, the
\* function prints the warning and returns the current-century offset.
C9_FallbackWhenNoneQualifies ==
    (ypc = "done" /\ Qualifying = {}) =>
        /\ years_warned
        /\ years_result = CenturyNow + LabelYY - draft_year

-----------------------------------------------------------------------------
(* Properties of add_missing_players_to_draft_history                      *)

\* The picks a sequence of file rows holds for draft year y.
PicksOf(rows, y) == {rows[i].OVERALL_PICK : i \in {j \in 1..Len(rows) : rows[j].SEASON = y}}

FileKeys(rows) == {KeyOf(rows[i]) : i \in 1..Len(rows)}

FrameKeys(frame) ==
    {<<SeasonAsInt(frame[i].SEASON), frame[i].OVERALL_PICK>> : i \in 1..Len(frame)}

\* The file holds picks 1..n of year y, and the fetch returns the file's rows
\* plus pick n+1 of year y.
FetchAddsNextPick(file, frame, y, n) ==
    /\ PicksOf(file, y) = 1..n
    /\ FrameKeys(frame) = FileKeys(file) \cup {<<y, n + 1>>}

\* C2: a run on a file that holds picks 1..n of a draft year, with a fetch that
\* returns the same rows plus pick n+1 of that year, leaves exactly n+1 rows of
\* that year, pick n+1 among them with a null PROBALLERS_ID.
C2_NextPickOfKnownYearAdded ==
    [][\A y \in Seasons : \A n \in 1..(MaxPick - 1) :
          (last_step' \in {"run", "rerun"}
             /\ FetchAddsNextPick(registry, api_rows', y, n)) =>
              /\ Cardinality({i \in 1..Len(registry') : registry'[i].SEASON = y}) = n + 1
              /\ \E i \in 1..Len(registry') :
                    /\ KeyOf(registry'[i]) = <<y, n + 1>>
                    /\ registry'[i].PROBALLERS_ID = NULL]_vars

\* C5: a run that gets the same rows as the run before it leaves the file as
\* that run wrote it: the same rows, in the same order, with the same
\* PROBALLERS_IDs.
C5_ReconcileIdempotent ==
    [][last_step' = "rerun" => registry' = registry]_vars

\* C5 witness: the function has run twice on the same rows, rows were appended,
\* and the file holds a curated row and a row still awaiting its identifier.
C5_Witness ==
    /\ last_step = "rerun"
    /\ grew
    /\ \E i, j \in 1..Len(registry) :
          registry[i].PROBALLERS_ID # NULL /\ registry[j].PROBALLERS_ID = NULL

\* C6: no two rows of the file share (SEASON, OVERALL_PICK).
C6_UniqueKey ==
    \A i, j \in 1..Len(registry) :
        KeyOf(registry[i]) = KeyOf(registry[j]) => i = j

\* C6 witness: a run has appended rows to a file that holds curated rows, and
\* the file holds rows of two draft years.
C6_Witness ==
    /\ last_step = "run"
    /\ grew
    /\ Len(registry) >= 3
    /\ \E i, j \in 1..Len(registry) :
          /\ registry[i].PROBALLERS_ID # NULL
          /\ registry[i].SEASON # registry[j].SEASON

-----------------------------------------------------------------------------
(* Properties of scrape_career_paths                                       *)

ScrapeEnded == spc \in {"returned", "raised"}

Requested == {draft_years_to_update[i] : i \in 1..Len(draft_years_to_update)}

\* C3: when a requested draft year is absent from the file, only that year is
\* given up: every other requested year the file knows, before or after it in
\* the list, has had its file written when the call returns.
C3_OnlyUnknownYearAborted ==
    (spc = "returned" /\ \E y \in Requested : y \notin SeasonsOfFile(registry)) =>
        \A y \in Requested : y \in SeasonsOfFile(registry) => y \in written

\* C4: a player whose page request fails is skipped: when the call has ended,
\* the year of every failed request has its file written and no request
\* failure has ended the call.
C4_FailedFetchSkipped ==
    ScrapeEnded =>
        \A i \in 1..Len(fetch_log) :
            fetch_log[i].outcome = "raises" =>
                /\ error # "requests.RequestException"
                /\ fetch_log[i].year \in written

\* C10: a player whose page lacks the data section adds no rows and causes no
\* error, however many such players a year has: when no request failed and the
\* call has ended, the year of every such player has its file written.
C10_MissingSectionIsNoError ==
    (ScrapeEnded /\ \A i \in 1..Len(fetch_log) : fetch_log[i].outcome # "raises") =>
        \A i \in 1..Len(fetch_log) :
            fetch_log[i].outcome = "no_section" =>
                /\ error # "ValueError"
                /\ fetch_log[i].year \in written

-----------------------------------------------------------------------------
(* Properties of map_countries_to_alpha3                                   *)

\* C7: every entry the mapping file holds before a call is in the file after
\* it with the same alpha-3 code and name, and the call asks pycountry about no
\* prefix the file already maps.
C7_CacheMonotonic ==
    [][/\ \A i \in 1..Len(country_mappings) :
            \E j \in 1..Len(country_mappings') :
                country_mappings'[j] = country_mappings[i]
       /\ looked_up' \cap MappingKeys(country_mappings) = {}]_vars

\* C7 witness: the last frame held US, which an earlier call had looked up and
\* cached, so that this call did not ask about it; it asked about another
\* prefix; and the file still maps AUS to Austria as written by hand.
C7_Witness ==
    /\ \E i \in 1..Len(league_prefixes) : league_prefixes[i] = PrefixUS
    /\ PrefixUS \notin looked_up
    /\ looked_up # {}
    /\ PrefixUS \in MappingKeys(country_mappings)
    /\ PrefixAUS \in MappingKeys(country_mappings)
    /\ MappingOf(country_mappings, PrefixAUS).ALPHA3 = "AUT"

====
